---- MODULE Spec2Model ----
(***************************************************************************)
(* Model of the application state controller of matrix-cli-client:         *)
(* src/src/app.rs (the scrollable lists, Room, App and its two event       *)
(* handlers), src/src/ui.rs (the home loop run_ui, its key handling and    *)
(* the indexed accesses of the drawing code) and src/src/matrix.rs (the    *)
(* event channels, send_message, kick_user, convert_message_type).         *)
(*                                                                         *)
(* Conventions.  A Vec is a TLA+ sequence (1-based); a ListState selection *)
(* is the 0-based index the code stores, or None.  vec[i] of the code is   *)
(* seq[i + 1] here.                                                        *)
(***************************************************************************)
EXTENDS Integers, Sequences, FiniteSets, TLC

VARIABLES
    rooms,          \* App.rooms : ScrollableRoomList [state, rooms]
    current_tab,    \* App.current_tab : Tabs
    input,          \* App.input : String, as a sequence of characters
    rx_messages,    \* the mpsc channel of message events (matrix.rs:76-80)
    rx_rooms,       \* the mpsc channel of membership events (matrix.rs:90-94)
    pc,             \* position of run_ui inside one loop iteration
    last,           \* the operation or handler branch executed last, and from where
    invitation,     \* the task of accept_invitation_background of each invited
                    \* room (matrix.rs:177-192): [pc, delay, failed]
    next_batch      \* how many events of the server's history the sync task
                    \* of matrix.rs:117-121 has handed to the event handlers

vars ==
    <<rooms, current_tab, input, rx_messages, rx_rooms, pc, last, invitation, next_batch>>

-----------------------------------------------------------------------------
(* Bounds of the model *)

\* capacity of each mpsc channel
MaxQueue == 1
\* capacity of each mpsc channel in the session that fills the channels
MaxFifoQueue == 2
\* the sync task stops delivering messages for a room whose timeline is this long
MaxMsgs == 3
\* length of App.input beyond which no character key is pressed
MaxInput == 1

-----------------------------------------------------------------------------
(* Option<usize> *)

None == -1

IsSome(s) == s # None

\* Iterator::position and Iterator::find: the 0-based index of the first
\* match, given the set of the (1-based) places that match, or None
FirstIndex(matches) ==
    IF matches = {} THEN None
    ELSE (CHOOSE k \in matches : \A j \in matches : k <= j) - 1

\* .position(|r| r.id == room_id) and .find(|r| r.id == room_id) on the rooms
RoomPosition(rs, room_id) == FirstIndex({k \in 1..Len(rs) : rs[k].id = room_id})

\* .position(|m| m.1 == user_id) and .find(|m| m.1 == user_id) on the members
MemberPosition(ms, user_id) == FirstIndex({k \in 1..Len(ms) : ms[k][2] = user_id})

\* Vec::remove(i), i a 0-based index below the length
\* remove that takes out the last element, whatever the index
Remove_Last(seq, i) == SubSeq(seq, 1, Len(seq) - 1)

Remove(seq, i) == [k \in 1..(Len(seq) - 1) |-> IF k <= i THEN seq[k] ELSE seq[k + 1]]

\* reverse that leaves the Vec in retrieval order
Reverse_KeepsOrder(seq) == seq

\* Vec::reverse
Reverse(seq) == [k \in 1..Len(seq) |-> seq[Len(seq) + 1 - k]]

\* usize::saturating_sub
SaturatingSub(a, b) == IF a >= b THEN a - b ELSE 0

-----------------------------------------------------------------------------
(* ScrollableMessageList, app.rs:31-111 *)

Follow == "Follow"
Scroll == "Scroll"

\* ScrollableMessageList::new
MessageListNew == [state |-> None, messages |-> <<>>, mode |-> Follow]

\* ScrollableMessageList::with_messages
with_messages(messages) ==
    [state |-> SaturatingSub(Len(messages), 1), messages |-> messages, mode |-> Follow]

\* add_message without the selection of the new message
add_message_NoFollow(list, time, sender, message) ==
    [list EXCEPT !.messages = Append(@, <<time, sender, message>>)]

\* ScrollableMessageList::add_message
add_message(list, time, sender, message) ==
    LET pushed == Append(list.messages, <<time, sender, message>>) IN
    IF list.mode = Follow
    THEN [list EXCEPT !.messages = pushed, !.state = Len(pushed) - 1]
    ELSE [list EXCEPT !.messages = pushed]

\* next_message that switches to Follow mode with every step down
next_message_FollowsEarly(list) ==
    IF Len(list.messages) = 0 THEN list
    ELSE IF IsSome(list.state)
         THEN IF list.state >= Len(list.messages) - 1
              THEN [list EXCEPT !.mode = Follow, !.state = Len(list.messages) - 1]
              ELSE [list EXCEPT !.mode = Follow, !.state = list.state + 1]
         ELSE [list EXCEPT !.state = 0]

\* ScrollableMessageList::next_message
next_message(list) ==
    IF Len(list.messages) = 0 THEN list
    ELSE IF IsSome(list.state)
         THEN IF list.state >= Len(list.messages) - 1
              THEN [list EXCEPT !.mode = Follow, !.state = Len(list.messages) - 1]
              ELSE [list EXCEPT !.mode = Scroll, !.state = list.state + 1]
         ELSE [list EXCEPT !.state = 0]

\* previous_message without the switch to Scroll mode
previous_message_KeepsFollow(list) ==
    IF Len(list.messages) = 0 THEN list
    ELSE IF IsSome(list.state)
         THEN IF list.state = 0
              THEN [list EXCEPT !.state = 0]
              ELSE [list EXCEPT !.state = list.state - 1]
         ELSE [list EXCEPT !.state = 0]

\* previous_message switching to Scroll mode at index 0 too
previous_message_ScrollAtTop(list) ==
    IF Len(list.messages) = 0 THEN list
    ELSE IF IsSome(list.state)
         THEN IF list.state = 0
              THEN [list EXCEPT !.mode = Scroll, !.state = 0]
              ELSE [list EXCEPT !.mode = Scroll, !.state = list.state - 1]
         ELSE [list EXCEPT !.state = 0]

\* ScrollableMessageList::previous_message
previous_message(list) ==
    IF Len(list.messages) = 0 THEN list
    ELSE IF IsSome(list.state)
         THEN IF list.state = 0
              THEN [list EXCEPT !.state = 0]
              ELSE [list EXCEPT !.mode = Scroll, !.state = list.state - 1]
         ELSE [list EXCEPT !.state = 0]

-----------------------------------------------------------------------------
(* ScrollableMemberList, app.rs:113-165 *)

\* ScrollableMemberList::with_members
with_members(members) == [state |-> None, members |-> members]

\* ScrollableMemberList::next_member
next_member(list) ==
    IF Len(list.members) = 0 THEN list
    ELSE IF IsSome(list.state)
         THEN IF list.state >= Len(list.members) - 1
              THEN [list EXCEPT !.state = 0]
              ELSE [list EXCEPT !.state = list.state + 1]
         ELSE [list EXCEPT !.state = 0]

\* ScrollableMemberList::previous_member
previous_member(list) ==
    IF Len(list.members) = 0 THEN list
    ELSE IF IsSome(list.state)
         THEN IF list.state = 0
              THEN [list EXCEPT !.state = Len(list.members) - 1]
              ELSE [list EXCEPT !.state = list.state - 1]
         ELSE [list EXCEPT !.state = 0]

-----------------------------------------------------------------------------
(* Conversions, matrix.rs:195-262 and the timestamp handling of app.rs *)

\* An Option of a string is <<>> (None) or <<s>> (Some(s)).
Some(v) == <<v>>

\* MilliSecondsSinceUnixEpoch::to_system_time as used at app.rs:219 and 392:
\* the milliseconds, or None when SystemTime cannot represent the instant.
\* An origin_server_ts is [ms |-> Nat, representable |-> BOOLEAN].
to_system_time(ts) == IF ts.representable THEN ts.ms ELSE None

\* SystemTime::UNIX_EPOCH, app.rs:221
UNIX_EPOCH == 0

DaysInMonth == <<31, 28, 31, 30, 31, 30, 31, 31, 30, 31, 30, 31>>

RECURSIVE MonthOf(_, _)
\* month (1..12) and day of month of the 0-based day number d of 1970
MonthOf(d, m) ==
    IF m < 12 /\ d >= DaysInMonth[m] THEN MonthOf(d - DaysInMonth[m], m + 1)
    ELSE <<m, d + 1>>

TwoDigits(n) == IF n < 10 THEN "0" \o ToString(n) ELSE ToString(n)

\* DateTime<Utc>::format("%d/%m/%Y %T") of an instant given in milliseconds
\* (app.rs:227, app.rs:405), for instants of the year 1970
FormatTime(ms) ==
    LET secs == ms \div 1000
        day  == secs \div 86400
        rest == secs % 86400
        md   == MonthOf(day, 1)
    IN  TwoDigits(md[2]) \o "/" \o TwoDigits(md[1]) \o "/1970 "
        \o TwoDigits(rest \div 3600) \o ":" \o TwoDigits((rest % 3600) \div 60)
        \o ":" \o TwoDigits(rest % 60)

\* convert_mxc_to_url: a Url is [origin, path]; an mxc uri is
\* [valid, server_name, media_id]
convert_mxc_to_url(mxc, base_url) ==
    IF mxc.valid
    THEN [base_url EXCEPT !.path = "/_matrix/media/r0/download/" \o mxc.server_name
                                   \o "/" \o mxc.media_id]
    ELSE base_url

UrlToString(url) == url.origin \o url.path

\* handle_media_source: a MediaSource is [plain |-> TRUE, mxc |-> ..] or
\* [plain |-> FALSE]
handle_media_source(source, homeserver_url) ==
    IF source.plain THEN UrlToString(convert_mxc_to_url(source.mxc, homeserver_url))
    ELSE "File is encrypted. Not Implemented!"

\* convert_message_type: a MessageType is a record with a kind and the fields
\* of that kind
convert_message_type(msgtype, homeserver_url) ==
    CASE msgtype.kind = "Text" -> msgtype.body
      [] msgtype.kind = "Audio" ->
            "Has send audio: " \o msgtype.body \o " "
            \o handle_media_source(msgtype.source, homeserver_url)
      [] msgtype.kind = "File" ->
            "Has send file: " \o msgtype.body \o " "
            \o handle_media_source(msgtype.source, homeserver_url)
      [] msgtype.kind = "Image" ->
            "Has send image: " \o msgtype.body \o " "
            \o handle_media_source(msgtype.source, homeserver_url)
      [] msgtype.kind = "Video" ->
            "Has send video: " \o msgtype.body \o " "
            \o handle_media_source(msgtype.source, homeserver_url)
      [] msgtype.kind = "Location" -> "Has send location: " \o msgtype.geo_uri
      [] OTHER -> "Unknown messagetype"

\* client.homeserver(), the same for the whole session
Homeserver == [origin |-> "https://matrix.org", path |-> "/"]

\* client.user_id() of the logged-in session (app.rs:409, app.rs:438)
LocalUser == "@me:hs"

-----------------------------------------------------------------------------
(* Room, app.rs:167-251 *)

\* A MatrixRoom handle answers three queries when Room::new runs:
\*   display_name   : <<>> (Err) or <<name>> (Ok)
\*   joined_members : [ok |-> BOOLEAN, members |-> Seq([user_id, display_name])]
\*   timeline       : [ok |-> BOOLEAN, events |-> Seq(raw event)]
\* A raw event of the backward timeline is [kind |-> "stream_err"],
\* [kind |-> "deser_err"], [kind |-> "other"] (not a room message) or
\* [kind |-> "message", sender, origin_server_ts, msgtype].

\* app.rs:192-198
MemberNames(members) ==
    [k \in 1..Len(members) |->
        IF members[k].display_name # <<>>
        THEN <<members[k].display_name[1], members[k].user_id>>
        ELSE <<members[k].user_id, members[k].user_id>>]

RECURSIVE BackfillMessages(_, _)
\* the while-let loop of app.rs:206-234: the messages pushed, in retrieval order
BackfillMessages(events, homeserver_url) ==
    IF events = <<>> THEN <<>>
    ELSE LET event == Head(events) IN
         IF event.kind \in {"stream_err", "deser_err"} THEN <<>>
         ELSE IF event.kind = "message"
              THEN LET st == to_system_time(event.origin_server_ts)
                       system_time == IF st = None THEN UNIX_EPOCH ELSE st
                   IN  <<<<FormatTime(system_time), event.sender,
                           convert_message_type(event.msgtype, homeserver_url)>>>>
                       \o BackfillMessages(Tail(events), homeserver_url)
              ELSE BackfillMessages(Tail(events), homeserver_url)

\* Room::new
RoomNew(room, homeserver_url) ==
    LET name == IF room.display_name # <<>> THEN room.display_name[1]
                ELSE "Unknown name"
        members == IF room.joined_members.ok THEN room.joined_members.members
                   ELSE <<>>
        member_names == MemberNames(members)
    IN  IF room.timeline.ok
        THEN [name |-> name, id |-> room.room_id,
              messages |-> with_messages(
                  Reverse(BackfillMessages(room.timeline.events, homeserver_url))),
              members |-> with_members(member_names)]
        ELSE [name |-> name, id |-> room.room_id,
              messages |-> MessageListNew,
              members |-> with_members(member_names)]

-----------------------------------------------------------------------------
(* ScrollableRoomList, app.rs:253-322 *)

\* ScrollableRoomList::new
RoomListNew == [state |-> None, rooms |-> <<>>]

\* add_room that puts the new room in front of the others
add_room_InFront(list, room, homeserver_url) ==
    [list EXCEPT !.rooms = <<RoomNew(room, homeserver_url)>> \o @]

\* ScrollableRoomList::add_room
add_room(list, room, homeserver_url) ==
    [list EXCEPT !.rooms = Append(@, RoomNew(room, homeserver_url))]

\* next_room that stays on the last room instead of going back to the first
next_room_Clamps(list) ==
    IF list.rooms = <<>> THEN list
    ELSE [list EXCEPT !.state =
            IF IsSome(list.state)
            THEN IF list.state >= Len(list.rooms) - 1 THEN Len(list.rooms) - 1
                 ELSE list.state + 1
            ELSE 0]

\* ScrollableRoomList::next_room
next_room(list) ==
    IF Len(list.rooms) = 0 THEN list
    ELSE IF IsSome(list.state)
         THEN IF list.state >= Len(list.rooms) - 1
              THEN [list EXCEPT !.state = 0]
              ELSE [list EXCEPT !.state = list.state + 1]
         ELSE [list EXCEPT !.state = 0]

\* previous_room that stays on the first room instead of going to the last
previous_room_Clamps(list) ==
    IF list.rooms = <<>> THEN list
    ELSE [list EXCEPT !.state =
            IF IsSome(list.state)
            THEN IF list.state = 0 THEN 0 ELSE list.state - 1
            ELSE 0]

\* ScrollableRoomList::previous_room
previous_room(list) ==
    IF Len(list.rooms) = 0 THEN list
    ELSE IF IsSome(list.state)
         THEN IF list.state = 0
              THEN [list EXCEPT !.state = Len(list.rooms) - 1]
              ELSE [list EXCEPT !.state = list.state - 1]
         ELSE [list EXCEPT !.state = 0]

\* get_current_room that returns the first room whenever a room is selected
get_current_room_First(list) ==
    IF IsSome(list.state) /\ Len(list.rooms) > 0 THEN 0 ELSE None

\* ScrollableRoomList::get_current_room: the 0-based index of the room the
\* returned reference points to, or None (Vec::get_mut of an index that is
\* not below the length is None)
get_current_room(list) ==
    IF IsSome(list.state) /\ list.state < Len(list.rooms) THEN list.state ELSE None

-----------------------------------------------------------------------------
(* App, app.rs:324-545 *)

TabRoom == "Room"
TabMembers == "Members"
TabMessages == "Messages"
TabInput == "Input"

RECURSIVE load_rooms(_, _)
\* App::load_rooms: add_room for every joined room the client lists, in order
\* (the invitations it accepts in the background change no state of App)
load_rooms(list, joined) ==
    IF joined = <<>> THEN list
    ELSE load_rooms(add_room(list, Head(joined), Homeserver), Tail(joined))

\* handle_matrix_message_event that also selects the room of the message
handle_matrix_message_event_SelectsRoom(list, event) ==
    LET system_time == to_system_time(event.origin_server_ts) IN
    IF system_time = None THEN list
    ELSE LET r == RoomPosition(list.rooms, event.room_id) IN
         IF r = None THEN list
         ELSE [list EXCEPT !.state = r,
                           !.rooms[r + 1].messages =
                  add_message(@, FormatTime(system_time), event.sender,
                              convert_message_type(event.msgtype, Homeserver))]

\* handle_matrix_message_event that takes UNIX_EPOCH for a timestamp that does
\* not resolve, as Room::new does
handle_matrix_message_event_EpochFallback(list, event) ==
    LET st == to_system_time(event.origin_server_ts)
        system_time == IF st = None THEN UNIX_EPOCH ELSE st
        r == RoomPosition(list.rooms, event.room_id)
    IN  IF r = None THEN list
        ELSE [list EXCEPT !.rooms[r + 1].messages =
                 add_message(@, FormatTime(system_time), event.sender,
                             convert_message_type(event.msgtype, Homeserver))]

\* App::handle_matrix_message_event on App.rooms.  A message event is
\* [room_id, sender, origin_server_ts, msgtype].  The notification shown for
\* the messages of other users changes no state of App.
handle_matrix_message_event(list, event) ==
    LET system_time == to_system_time(event.origin_server_ts) IN
    IF system_time = None THEN list
    ELSE LET r == RoomPosition(list.rooms, event.room_id) IN
         IF r = None THEN list
         ELSE [list EXCEPT !.rooms[r + 1].messages =
                  add_message(@, FormatTime(system_time), event.sender,
                              convert_message_type(event.msgtype, Homeserver))]

\* which arm of handle_matrix_message_event runs
MessageEventBranch(list, event) ==
    IF to_system_time(event.origin_server_ts) = None THEN "no_timestamp"
    ELSE IF RoomPosition(list.rooms, event.room_id) = None
         THEN "unknown_room"
         ELSE "add_message"

Membership_Join == "join"
Membership_Leave == "leave"

\* the Join block without the lookup of the room in the directory
membership_join_AlwaysAddRoom(list, event, room) ==
    IF event.state_key = LocalUser THEN add_room(list, room, Homeserver)
    ELSE list

\* the Join block without the lookup of the member in the roster
membership_join_AlwaysPush(list, event, room) ==
    LET r == RoomPosition(list.rooms, event.room_id) IN
    IF r # None
    THEN LET display_name == IF event.displayname # <<>> THEN event.displayname[1]
                             ELSE "Unknown name"
         IN  [list EXCEPT !.rooms[r + 1].members.members =
                             Append(@, <<display_name, event.state_key>>)]
    ELSE IF event.state_key = LocalUser THEN add_room(list, room, Homeserver)
         ELSE list

\* the Join block of App::handle_matrix_room_event (app.rs:442-475) on
\* App.rooms.  A membership event is [room_id, state_key, membership,
\* displayname]; room is the MatrixRoom handle delivered with it.
membership_join(list, event, room) ==
    LET r == RoomPosition(list.rooms, event.room_id) IN
    IF r # None
    THEN LET display_name == IF event.displayname # <<>> THEN event.displayname[1]
                             ELSE "Unknown name"
             m == MemberPosition(list.rooms[r + 1].members.members, event.state_key)
         IN  IF m # None THEN list
             ELSE [list EXCEPT !.rooms[r + 1].members.members =
                                  Append(@, <<display_name, event.state_key>>)]
    ELSE IF event.state_key = LocalUser THEN add_room(list, room, Homeserver)
         ELSE list

\* the Leave block without the reset of the tab when the local user leaves
membership_leave_NoTabReset(app, event) ==
    LET i == RoomPosition(app.rooms.rooms, event.room_id) IN
    IF i = None THEN app
    ELSE IF event.state_key = LocalUser
         THEN [app EXCEPT !.rooms = [state |-> IF app.rooms.state = i THEN None
                                               ELSE app.rooms.state,
                                     rooms |-> Remove(app.rooms.rooms, i)]]
         ELSE LET room == app.rooms.rooms[i + 1]
                  m == MemberPosition(room.members.members, event.state_key)
              IN  IF m = None THEN app
                  ELSE [app EXCEPT !.rooms.rooms[i + 1].members =
                           [state |-> IF room.members.state = m THEN None
                                      ELSE room.members.state,
                            members |-> Remove(room.members.members, m)]]

\* the Leave block without the deselection of the room the local user leaves
membership_leave_KeepsSelection(app, event) ==
    LET i == RoomPosition(app.rooms.rooms, event.room_id) IN
    IF i = None THEN app
    ELSE IF event.state_key = LocalUser
         THEN [rooms |-> [app.rooms EXCEPT !.rooms = Remove(@, i)],
               current_tab |-> IF app.current_tab \in {TabMembers, TabInput}
                               THEN TabRoom ELSE app.current_tab]
         ELSE LET room == app.rooms.rooms[i + 1]
                  m == MemberPosition(room.members.members, event.state_key)
              IN  IF m = None THEN app
                  ELSE [app EXCEPT !.rooms.rooms[i + 1].members =
                           [state |-> IF room.members.state = m THEN None
                                      ELSE room.members.state,
                            members |-> Remove(room.members.members, m)]]

\* the Leave block of App::handle_matrix_room_event (app.rs:476-515) on
\* [rooms, current_tab]
membership_leave(app, event) ==
    LET i == RoomPosition(app.rooms.rooms, event.room_id) IN
    IF i = None THEN app
    ELSE IF event.state_key = LocalUser
         THEN [rooms |-> [state |-> IF app.rooms.state = i THEN None
                                    ELSE app.rooms.state,
                          rooms |-> Remove(app.rooms.rooms, i)],
               current_tab |-> IF app.current_tab \in {TabMembers, TabInput}
                               THEN TabRoom ELSE app.current_tab]
         ELSE LET room == app.rooms.rooms[i + 1]
                  m == MemberPosition(room.members.members, event.state_key)
              IN  IF m = None THEN app
                  ELSE [app EXCEPT !.rooms.rooms[i + 1].members =
                           [state |-> IF room.members.state = m THEN None
                                      ELSE room.members.state,
                            members |-> Remove(room.members.members, m)]]

\* App::handle_matrix_room_event on [rooms, current_tab]; client.user_id() is
\* Some(LocalUser) for the logged-in session
handle_matrix_room_event(app, event, room) ==
    IF event.membership = Membership_Join
    THEN [app EXCEPT !.rooms = membership_join(app.rooms, event, room)]
    ELSE IF event.membership = Membership_Leave
         THEN membership_leave(app, event)
         ELSE app

\* which arm of handle_matrix_room_event runs
RoomEventBranch(list, event) ==
    LET r == RoomPosition(list.rooms, event.room_id)
        known == r # None
        self == event.state_key = LocalUser
        present == known /\ MemberPosition(list.rooms[r + 1].members.members,
                                           event.state_key) # None
    IN  CASE event.membership = Membership_Join /\ known /\ present -> "join_present"
          [] event.membership = Membership_Join /\ known /\ ~present -> "join_push"
          [] event.membership = Membership_Join /\ ~known /\ self -> "add_room"
          [] event.membership = Membership_Join /\ ~known /\ ~self -> "join_unknown"
          [] event.membership = Membership_Leave /\ known /\ self -> "leave_self"
          [] event.membership = Membership_Leave /\ known /\ ~self /\ present ->
                "leave_member"
          [] event.membership = Membership_Leave /\ known /\ ~self /\ ~present ->
                "leave_absent"
          [] event.membership = Membership_Leave /\ ~known -> "leave_unknown"
          [] OTHER -> "other_membership"

\* next_tab that keeps the roster selection when it leaves the Members tab
next_tab_KeepsMemberSelection(app) ==
    CASE app.current_tab = TabRoom -> [app EXCEPT !.current_tab = TabMessages]
      [] app.current_tab = TabMessages ->
            IF IsSome(app.rooms.state) THEN [app EXCEPT !.current_tab = TabInput]
            ELSE [app EXCEPT !.current_tab = TabRoom]
      [] app.current_tab = TabInput -> [app EXCEPT !.current_tab = TabMembers]
      [] OTHER -> [app EXCEPT !.current_tab = TabRoom]

\* next_tab that leaves the Input tab for the Room tab
next_tab_SkipsMembers(app) ==
    CASE app.current_tab = TabRoom -> [app EXCEPT !.current_tab = TabMessages]
      [] app.current_tab = TabMessages ->
            IF IsSome(app.rooms.state) THEN [app EXCEPT !.current_tab = TabInput]
            ELSE [app EXCEPT !.current_tab = TabRoom]
      [] OTHER -> [app EXCEPT !.current_tab = TabRoom]

\* next_tab that leaves the Messages tab for the Input tab without looking at
\* the selection
next_tab_AlwaysInput(app) ==
    CASE app.current_tab = TabRoom -> [app EXCEPT !.current_tab = TabMessages]
      [] app.current_tab = TabMessages -> [app EXCEPT !.current_tab = TabInput]
      [] app.current_tab = TabInput -> [app EXCEPT !.current_tab = TabMembers]
      [] OTHER -> [app EXCEPT !.current_tab = TabRoom]

\* App::next_tab on [rooms, current_tab]
next_tab(app) ==
    CASE app.current_tab = TabRoom -> [app EXCEPT !.current_tab = TabMessages]
      [] app.current_tab = TabMessages ->
            IF IsSome(app.rooms.state) THEN [app EXCEPT !.current_tab = TabInput]
            ELSE [app EXCEPT !.current_tab = TabRoom]
      [] app.current_tab = TabInput -> [app EXCEPT !.current_tab = TabMembers]
      [] app.current_tab = TabMembers ->
            LET r == get_current_room(app.rooms) IN
            IF r # None
            THEN [rooms |-> [app.rooms EXCEPT !.rooms[r + 1].members.state = None],
                  current_tab |-> TabRoom]
            ELSE [app EXCEPT !.current_tab = TabRoom]

-----------------------------------------------------------------------------
(* run_ui, ui.rs:35-155, and the external calls of matrix.rs:126-167 *)

\* send_message without the return on an empty message
send_message_SendsEmpty(room_id, message) == TRUE

\* ClientExt::send_message: whether room.send is reached, for a room id that
\* parses and a room the client has joined
send_message(room_id, message) == message # <<>>

\* app.input.push(c) of ui.rs:144
push(string, c) == Append(string, c)

\* pop that leaves the String as it was
pop_KeepsString(string) == string

\* app.input.pop() of ui.rs:147: the String without its last character
pop(string) == IF string = <<>> THEN <<>> ELSE SubSeq(string, 1, Len(string) - 1)

\* drain that leaves the String as it was
drain_KeepsString(string) == [string |-> string, drained |-> string]

\* app.input.drain(..).collect() of ui.rs:138: the String left behind and the
\* characters taken out of it
drain(string) == [string |-> <<>>, drained |-> string]

\* draw_room_tab (ui.rs:290-298): app.rooms.rooms[i] for the selected i panics
\* when i is not below the length
draw_room_tab_panics(list) == IsSome(list.state) /\ list.state >= Len(list.rooms)

\* the Char('k') arm of the Members tab (ui.rs:110-122): room.members.members[i]
\* for the selected i panics when i is not below the length
kick_panics(room) ==
    IsSome(room.members.state) /\ room.members.state >= Len(room.members.members)

RoomIdAt(list, r) == IF r = None THEN "" ELSE list.rooms[r + 1].id

\* the match on app.current_tab and key.code of ui.rs:54-151 on
\* [rooms, current_tab, input].  A key is [code, c].  The result holds the new
\* state, the operation that ran (op, on room, with arg) and where run_ui goes.
key_event(app, key) ==
    LET r == get_current_room(app.rooms)
        id == RoomIdAt(app.rooms, r)
        same(op) == [app |-> app, op |-> op, room |-> "", arg |-> <<>>,
                     next |-> "recv_messages"]
        tabbed == LET t == next_tab([rooms |-> app.rooms,
                                     current_tab |-> app.current_tab])
                  IN  [app |-> [app EXCEPT !.rooms = t.rooms,
                                           !.current_tab = t.current_tab],
                       op |-> "next_tab", room |-> id, arg |-> <<>>,
                       next |-> "recv_messages"]
        exit == [app |-> app, op |-> "exit", room |-> "", arg |-> <<>>,
                 next |-> "exited"]
    IN
    CASE key.code = "Esc" -> exit
      [] key.code = "Tab" -> tabbed
      [] app.current_tab = TabRoom /\ key.code = "Up" ->
            [app |-> [app EXCEPT !.rooms = previous_room(@)],
             op |-> "previous_room", room |-> "", arg |-> <<>>,
             next |-> "recv_messages"]
      [] app.current_tab = TabRoom /\ key.code = "Down" ->
            [app |-> [app EXCEPT !.rooms = next_room(@)],
             op |-> "next_room", room |-> "", arg |-> <<>>,
             next |-> "recv_messages"]
      [] app.current_tab = TabMessages /\ key.code = "Up" /\ r # None ->
            [app |-> [app EXCEPT !.rooms.rooms[r + 1].messages = previous_message(@)],
             op |-> "previous_message", room |-> id, arg |-> <<>>,
             next |-> "recv_messages"]
      [] app.current_tab = TabMessages /\ key.code = "Down" /\ r # None ->
            [app |-> [app EXCEPT !.rooms.rooms[r + 1].messages = next_message(@)],
             op |-> "next_message", room |-> id, arg |-> <<>>,
             next |-> "recv_messages"]
      [] app.current_tab = TabMembers /\ key.code = "Up" /\ r # None ->
            [app |-> [app EXCEPT !.rooms.rooms[r + 1].members = previous_member(@)],
             op |-> "previous_member", room |-> id, arg |-> <<>>,
             next |-> "recv_messages"]
      [] app.current_tab = TabMembers /\ key.code = "Down" /\ r # None ->
            [app |-> [app EXCEPT !.rooms.rooms[r + 1].members = next_member(@)],
             op |-> "next_member", room |-> id, arg |-> <<>>,
             next |-> "recv_messages"]
      [] app.current_tab = TabMembers /\ key.code = "Char" /\ key.c = "k"
         /\ r # None /\ IsSome(app.rooms.rooms[r + 1].members.state) ->
            IF kick_panics(app.rooms.rooms[r + 1])
            THEN [app |-> app, op |-> "kick_user", room |-> id, arg |-> <<>>,
                  next |-> "panicked"]
            ELSE [app |-> app, op |-> "kick_user", room |-> id,
                  arg |-> <<app.rooms.rooms[r + 1].members.members[
                               app.rooms.rooms[r + 1].members.state + 1][2]>>,
                  next |-> "recv_messages"]
      [] app.current_tab = TabInput /\ key.code = "Enter" /\ r # None ->
            LET message == drain(app.input) IN
            [app |-> [app EXCEPT !.input = message.string],
             op |-> IF send_message(id, message.drained) THEN "room_send"
                    ELSE "send_message_returns",
             room |-> id, arg |-> message.drained, next |-> "recv_messages"]
      [] app.current_tab = TabInput /\ key.code = "Char" ->
            [app |-> [app EXCEPT !.input = push(@, key.c)],
             op |-> "push", room |-> "", arg |-> <<>>, next |-> "recv_messages"]
      [] app.current_tab = TabInput /\ key.code = "Backspace" ->
            [app |-> [app EXCEPT !.input = pop(@)],
             op |-> "pop", room |-> "", arg |-> <<>>, next |-> "recv_messages"]
      [] OTHER -> same("ignored")

Running == pc \notin {"exited", "panicked"}

TimelineLen(list, room_id) ==
    LET r == RoomPosition(list.rooms, room_id) IN
    IF r = None THEN 0 ELSE Len(list.rooms[r + 1].messages.messages)

Pending(queue, room_id) == Cardinality({k \in 1..Len(queue) : queue[k].room_id = room_id})

\* what a step of run_ui starts from: the tab, the directory's selection and
\* the roster selection of the selected room
Before ==
    LET r == get_current_room(rooms) IN
    [tab |-> current_tab, room |-> rooms.state,
     member |-> IF r = None THEN None ELSE rooms.rooms[r + 1].members.state]

\* the message event handler registered at matrix.rs:73-83: the sync task
\* sends one of `events` into the message channel; tx.send waits while the
\* channel is full.  No further message is delivered for a room whose
\* timeline, with the messages on their way, holds `cap` messages.
SyncMessageEventInto(events, cap, capacity) ==
    /\ Running
    /\ Len(rx_messages) < capacity
    /\ \E ev \in events :
          /\ TimelineLen(rooms, ev.room_id) + Pending(rx_messages, ev.room_id) < cap
          /\ rx_messages' = Append(rx_messages, ev)
    /\ UNCHANGED <<rooms, current_tab, input, rx_rooms, pc, last, invitation, next_batch>>

SyncMessageEvent(events, cap) == SyncMessageEventInto(events, cap, MaxQueue)

\* the membership event handler registered at matrix.rs:87-97
SyncRoomEventInto(events, capacity) ==
    /\ Running
    /\ Len(rx_rooms) < capacity
    /\ \E ev \in events : rx_rooms' = Append(rx_rooms, ev)
    /\ UNCHANGED <<rooms, current_tab, input, rx_messages, pc, last, invitation, next_batch>>

SyncRoomEvent(events) == SyncRoomEventInto(events, MaxQueue)

\* RecvMessage that takes the event sent last
RecvMessage_TakesLast ==
    /\ pc = "recv_messages"
    /\ pc' = "recv_rooms"
    /\ IF rx_messages = <<>>
       THEN /\ last' = [op |-> "no_message", room |-> "", arg |-> <<>>, from |-> Before]
            /\ UNCHANGED <<rooms, rx_messages>>
       ELSE LET ev == rx_messages[Len(rx_messages)] IN
            /\ rooms' = handle_matrix_message_event(rooms, ev)
            /\ rx_messages' = SubSeq(rx_messages, 1, Len(rx_messages) - 1)
            /\ last' = [op |-> MessageEventBranch(rooms, ev),
                        room |-> ev.room_id, arg |-> <<>>, from |-> Before]
    /\ UNCHANGED <<current_tab, input, rx_rooms, invitation, next_batch>>

\* ui.rs:43-45: rx_messages.try_recv() and the message handler
RecvMessage ==
    /\ pc = "recv_messages"
    /\ pc' = "recv_rooms"
    /\ IF rx_messages = <<>>
       THEN /\ last' = [op |-> "no_message", room |-> "", arg |-> <<>>, from |-> Before]
            /\ UNCHANGED <<rooms, rx_messages>>
       ELSE /\ rooms' = handle_matrix_message_event(rooms, Head(rx_messages))
            /\ rx_messages' = Tail(rx_messages)
            /\ last' = [op |-> MessageEventBranch(rooms, Head(rx_messages)),
                        room |-> Head(rx_messages).room_id, arg |-> <<>>,
                        from |-> Before]
    /\ UNCHANGED <<current_tab, input, rx_rooms, invitation, next_batch>>

\* ui.rs:46-48: rx_rooms.try_recv() and the membership handler; the MatrixRoom
\* handle delivered with the event answers Room::new with one of `handles`
RecvRoomEvent(handles) ==
    /\ pc = "recv_rooms"
    /\ pc' = "draw"
    /\ IF rx_rooms = <<>>
       THEN /\ last' = [op |-> "no_room_event", room |-> "", arg |-> <<>>,
                        from |-> Before]
            /\ UNCHANGED <<rooms, current_tab, rx_rooms>>
       ELSE LET ev == Head(rx_rooms) IN
            \E room \in {h \in handles : h.room_id = ev.room_id} :
               LET app == handle_matrix_room_event(
                              [rooms |-> rooms, current_tab |-> current_tab],
                              ev, room)
               IN  /\ rooms' = app.rooms
                   /\ current_tab' = app.current_tab
                   /\ rx_rooms' = Tail(rx_rooms)
                   /\ last' = [op |-> RoomEventBranch(rooms, ev),
                               room |-> ev.room_id, arg |-> <<ev.state_key>>,
                               from |-> Before]
    /\ UNCHANGED <<input, rx_messages, invitation, next_batch>>

\* ui.rs:50: terminal.draw(|f| ui(f, &mut app))
Draw ==
    /\ pc = "draw"
    /\ pc' = IF draw_room_tab_panics(rooms) THEN "panicked" ELSE "poll"
    /\ UNCHANGED <<rooms, current_tab, input, rx_messages, rx_rooms, last, invitation,
                   next_batch>>

\* ui.rs:52-153: poll times out, or one of `keys` is read and handled
PollKey(keys) ==
    /\ pc = "poll"
    /\ \/ /\ pc' = "recv_messages"
          /\ last' = [op |-> "no_key", room |-> "", arg |-> <<>>, from |-> Before]
          /\ UNCHANGED <<rooms, current_tab, input>>
       \/ \E key \in keys :
             /\ key.code = "Char" /\ current_tab = TabInput => Len(input) < MaxInput
             /\ LET res == key_event([rooms |-> rooms, current_tab |-> current_tab,
                                      input |-> input], key)
                IN  /\ rooms' = res.app.rooms
                    /\ current_tab' = res.app.current_tab
                    /\ input' = res.app.input
                    /\ pc' = res.next
                    /\ last' = [op |-> res.op, room |-> res.room, arg |-> res.arg,
                                from |-> Before]
    /\ UNCHANGED <<rx_messages, rx_rooms, invitation, next_batch>>

-----------------------------------------------------------------------------
(* Room and user ids *)

R1 == "!r1:hs"
R2 == "!r2:hs"
R3 == "!r3:hs"
U1 == "@u1:hs"
U2 == "@u2:hs"

-----------------------------------------------------------------------------
(* InvitedExt::accept_invitation_background, matrix.rs:177-192, spawned by the
   handler of the invites of the local user, matrix.rs:100-112 *)

\* let mut delay = 2, in seconds
InitialDelay == 2
\* if delay > 3600 { break }
MaxDelay == 3600

\* the rooms the local user is invited to
InvitedRooms == {R1, R2}

\* no task was spawned for the room
NoTask == [pc |-> "none", delay |-> 0, failed |-> 0]

\* matrix.rs:102-111 and 178-181: the invite is handled, the task is spawned
\* and reaches the loop condition
SpawnAccept(room_id) ==
    /\ invitation[room_id].pc = "none"
    /\ invitation' = [invitation EXCEPT ![room_id] =
                         [pc |-> "accept", delay |-> InitialDelay, failed |-> 0]]
    /\ UNCHANGED <<rooms, current_tab, input, rx_messages, rx_rooms, pc, last, next_batch>>

\* matrix.rs:182: room.accept_invitation().await returns Ok, which ends the
\* loop and the task, or Err
AcceptInvitation(room_id) ==
    /\ invitation[room_id].pc = "accept"
    /\ \E is_err \in BOOLEAN :
          invitation' = [invitation EXCEPT ![room_id] =
                            IF is_err THEN [@ EXCEPT !.pc = "sleep", !.failed = @ + 1]
                            ELSE [@ EXCEPT !.pc = "joined"]]
    /\ UNCHANGED <<rooms, current_tab, input, rx_messages, rx_rooms, pc, last, next_batch>>

\* the loop body that sleeps and goes on with the same delay
SleepAndDouble_KeepsDelay(room_id) ==
    /\ invitation[room_id].pc = "sleep"
    /\ invitation' = [invitation EXCEPT ![room_id].pc = "accept"]
    /\ UNCHANGED <<rooms, current_tab, input, rx_messages, rx_rooms, pc, last, next_batch>>

\* matrix.rs:186-190: sleep(Duration::from_secs(delay)).await returns,
\* delay *= 2, and the loop breaks when delay > 3600
SleepAndDouble(room_id) ==
    /\ invitation[room_id].pc = "sleep"
    /\ LET delay == invitation[room_id].delay * 2 IN
       invitation' = [invitation EXCEPT ![room_id] =
                         [@ EXCEPT !.delay = delay,
                                   !.pc = IF delay > MaxDelay THEN "abandoned"
                                          ELSE "accept"]]
    /\ UNCHANGED <<rooms, current_tab, input, rx_messages, rx_rooms, pc, last, next_batch>>

\* App::new (app.rs:348-357) for one of the lists of joined rooms `startups`,
\* and the two empty channels handed to run_ui
InitWith(startups) ==
    /\ \E joined \in startups : rooms = load_rooms(RoomListNew, joined)
    /\ current_tab = TabRoom
    /\ input = <<>>
    /\ rx_messages = <<>>
    /\ rx_rooms = <<>>
    /\ pc = "recv_messages"
    /\ last = [op |-> "load_rooms", room |-> "", arg |-> <<>>, from |-> Before]
    /\ invitation = [room_id \in InvitedRooms |-> NoTask]
    /\ next_batch = 0

-----------------------------------------------------------------------------
(* The environment: what the homeserver and the keyboard deliver *)

Ts(ms) == [ms |-> ms, representable |-> TRUE]
TsUnrepresentable == [ms |-> 0, representable |-> FALSE]
Text(body) == [kind |-> "Text", body |-> body]

Member(user_id, display_name) == [user_id |-> user_id, display_name |-> display_name]
RawMessage(sender, ts, body) ==
    [kind |-> "message", sender |-> sender, origin_server_ts |-> ts,
     msgtype |-> Text(body)]
Handle(room_id, name, members, timeline) ==
    [room_id |-> room_id, display_name |-> name,
     joined_members |-> members, timeline |-> timeline]
Ok(seq) == [ok |-> TRUE, members |-> seq, events |-> seq]
Err == [ok |-> FALSE, members |-> <<>>, events |-> <<>>]

MessageEvent(room_id, sender, ts, body) ==
    [room_id |-> room_id, sender |-> sender, origin_server_ts |-> ts,
     msgtype |-> Text(body)]
MemberEvent(room_id, state_key, membership, displayname) ==
    [room_id |-> room_id, state_key |-> state_key, membership |-> membership,
     displayname |-> displayname]

Keys ==
    {[code |-> c, c |-> ""] : c \in {"Esc", "Up", "Down", "Tab", "Enter", "Backspace"}}
    \cup {[code |-> "Char", c |-> "k"]}

\* the MatrixRoom handles of the two rooms of the session: R1 lists another
\* member before the local user and its backward timeline fails; R2 has an
\* empty history
H1 == Handle(R1, Some("one"), Ok(<<Member(U1, Some("Uno")), Member(LocalUser, <<>>)>>), Err)
H2 == Handle(R2, <<>>, Ok(<<Member(LocalUser, <<>>)>>), Ok(<<>>))

Handles == {H1, H2}
Startups == {<<>>, <<H1, H2>>}

\* in this specification the timelines only change with the directory: the
\* message event delivered is for a room the directory does not hold
MessageEvents == {MessageEvent(R3, U1, Ts(3000), "c")}

RoomEvents ==
    {MemberEvent(r, LocalUser, m, <<>>) :
        r \in {R1, R2}, m \in {Membership_Join, Membership_Leave}}
    \cup {MemberEvent(R1, U1, m, <<>>) : m \in {Membership_Join, Membership_Leave}}

Init == InitWith(Startups)

Next ==
    \/ SyncMessageEvent(MessageEvents, MaxMsgs)
    \/ SyncRoomEvent(RoomEvents)
    \/ RecvMessage
    \/ RecvRoomEvent(Handles)
    \/ Draw
    \/ PollKey(Keys)

Spec == Init /\ [][Next]_vars

-----------------------------------------------------------------------------
(* A session of one room, R1, whose timeline grows: the local user joins and
   leaves R1, whose backward timeline fails at once, is empty, holds two
   messages (newest first) or fails after the first, and messages for R1
   arrive *)

T1Members == Ok(<<Member(LocalUser, <<>>)>>)
T1Err == Handle(R1, Some("one"), T1Members, Err)
T1Empty == Handle(R1, Some("one"), T1Members, Ok(<<>>))
T1Two == Handle(R1, Some("one"), T1Members,
                Ok(<<RawMessage(U1, Ts(2000), "b"), RawMessage(LocalUser, Ts(1000), "a")>>))

\* the stream fails after its first (newest) event
T1Broken == Handle(R1, Some("one"), T1Members,
                   Ok(<<RawMessage(U1, Ts(2000), "b"), [kind |-> "stream_err"],
                        RawMessage(LocalUser, Ts(1000), "a")>>))

\* an event that is no room message, then one that does not deserialize
T1Undecodable == Handle(R1, Some("one"), T1Members,
                        Ok(<<RawMessage(U1, Ts(2000), "b"), [kind |-> "other"],
                             [kind |-> "deser_err"],
                             RawMessage(LocalUser, Ts(1000), "a")>>))

TimelineHandles == {T1Err, T1Empty, T1Two, T1Broken, T1Undecodable}
TimelineMessageEvents == {MessageEvent(R1, U1, Ts(3000), "c")}
TimelineRoomEvents ==
    {MemberEvent(R1, LocalUser, m, <<>>) : m \in {Membership_Join, Membership_Leave}}

InitTimeline == InitWith({<<>>})

NextTimeline ==
    \/ SyncMessageEvent(TimelineMessageEvents, MaxMsgs)
    \/ SyncRoomEvent(TimelineRoomEvents)
    \/ RecvMessage
    \/ RecvRoomEvent(TimelineHandles)
    \/ Draw
    \/ PollKey(Keys)

SpecTimeline == InitTimeline /\ [][NextTimeline]_vars

-----------------------------------------------------------------------------
(* A session whose directory keeps what it loaded, nothing or two rooms: R1
   with two members and two messages, R2 with the local user and one message;
   messages for R1 arrive and U2 joins and leaves R2 *)

N1 == Handle(R1, Some("one"),
             Ok(<<Member(U1, Some("Uno")), Member(LocalUser, <<>>)>>),
             Ok(<<RawMessage(U1, Ts(2000), "b"), RawMessage(LocalUser, Ts(1000), "a")>>))
N2 == Handle(R2, <<>>, Ok(<<Member(LocalUser, <<>>)>>),
             Ok(<<RawMessage(LocalUser, Ts(1000), "a")>>))

NavHandles == {N1, N2}
NavMessageEvents == {MessageEvent(R1, U1, Ts(3000), "c")}
NavRoomEvents ==
    {MemberEvent(R2, U2, m, <<>>) : m \in {Membership_Join, Membership_Leave}}

InitNav == InitWith({<<>>, <<N1, N2>>})

NextNav ==
    \/ SyncMessageEvent(NavMessageEvents, MaxMsgs)
    \/ SyncRoomEvent(NavRoomEvents)
    \/ RecvMessage
    \/ RecvRoomEvent(NavHandles)
    \/ Draw
    \/ PollKey(Keys)

SpecNav == InitNav /\ [][NextNav]_vars

-----------------------------------------------------------------------------
(* A session that fills the channels: the directory holds R1 with the local
   user and no message; two different messages for R1 arrive, U1 joins and
   leaves R1, and each channel holds up to MaxFifoQueue events *)

F1 == Handle(R1, Some("one"), Ok(<<Member(LocalUser, <<>>)>>), Ok(<<>>))

FifoHandles == {F1}
FifoMessageEvents ==
    {MessageEvent(R1, U1, Ts(3000), "c"), MessageEvent(R1, U1, Ts(4000), "d")}
FifoRoomEvents ==
    {MemberEvent(R1, U1, m, <<>>) : m \in {Membership_Join, Membership_Leave}}

\* the keys pressed in this session
FifoKeys == {[code |-> c, c |-> ""] : c \in {"Esc", "Tab"}}

InitFifo == InitWith({<<F1>>})

NextFifo ==
    \/ SyncMessageEventInto(FifoMessageEvents, MaxMsgs, MaxFifoQueue)
    \/ SyncRoomEventInto(FifoRoomEvents, MaxFifoQueue)
    \/ RecvMessage
    \/ RecvRoomEvent(FifoHandles)
    \/ Draw
    \/ PollKey(FifoKeys)

SpecFifo == InitFifo /\ [][NextFifo]_vars

-----------------------------------------------------------------------------
(* A session in which events are dropped: the directory starts empty; the
   local user and U1 join and leave R1, whose history holds two messages, and
   the local user is invited to R1; messages for R1 arrive with a timestamp
   that resolves and with one that does not *)

Membership_Invite == "invite"

EventsHandles == {T1Two}
EventsMessageEvents ==
    {MessageEvent(R1, U1, Ts(3000), "c"), MessageEvent(R1, U1, TsUnrepresentable, "c")}
EventsRoomEvents ==
    {MemberEvent(R1, u, m, <<>>) :
        u \in {LocalUser, U1}, m \in {Membership_Join, Membership_Leave}}
    \cup {MemberEvent(R1, LocalUser, Membership_Invite, <<>>)}

InitEvents == InitWith({<<>>})

NextEvents ==
    \/ SyncMessageEvent(EventsMessageEvents, MaxMsgs)
    \/ SyncRoomEvent(EventsRoomEvents)
    \/ RecvMessage
    \/ RecvRoomEvent(EventsHandles)
    \/ Draw
    \/ PollKey(Keys)

SpecEvents == InitEvents /\ [][NextEvents]_vars

-----------------------------------------------------------------------------
(* The session of R1 with the await points of the membership handler shown:
   for a Join of the local user for a room the directory does not hold, the
   handler awaits add_room, which awaits Room::new and with it display_name,
   joined_members, timeline_backward and every item of the stream
   (app.rs:469-471, 274-275, 182-207); run_ui awaits the handler (ui.rs:47).
   At "room_new" run_ui is inside that await. *)

\* ui.rs:46-48 up to the await of Room::new
RecvRoomEventAwaiting(handles) ==
    IF /\ pc = "recv_rooms" /\ rx_rooms # <<>>
       /\ RoomEventBranch(rooms, Head(rx_rooms)) = "add_room"
    THEN /\ pc' = "room_new"
         /\ rx_rooms' = Tail(rx_rooms)
         /\ last' = [op |-> "await_room_new", room |-> Head(rx_rooms).room_id,
                     arg |-> <<Head(rx_rooms).state_key>>, from |-> Before]
         /\ UNCHANGED <<rooms, current_tab, input, rx_messages, invitation, next_batch>>
    ELSE RecvRoomEvent(handles)

\* Room::new returns with what one of `handles` answered, add_room pushes the
\* Room and the handler returns to run_ui
RoomNewReturns(handles) ==
    /\ pc = "room_new"
    /\ pc' = "draw"
    /\ \E room \in {h \in handles : h.room_id = last.room} :
          rooms' = add_room(rooms, room, Homeserver)
    /\ last' = [last EXCEPT !.op = "add_room"]
    /\ UNCHANGED <<current_tab, input, rx_messages, rx_rooms, invitation, next_batch>>

NextAwaiting ==
    \/ SyncMessageEvent(TimelineMessageEvents, MaxMsgs)
    \/ SyncRoomEvent(TimelineRoomEvents)
    \/ RecvMessage
    \/ RecvRoomEventAwaiting(TimelineHandles)
    \/ RoomNewReturns(TimelineHandles)
    \/ Draw
    \/ PollKey(Keys)

SpecAwaiting == InitTimeline /\ [][NextAwaiting]_vars

-----------------------------------------------------------------------------
(* The invitation tasks alone: the local user is invited to R1 and R2; the
   runtime goes on running a task that can take a step *)

InitInvite == InitWith({<<>>})

NextInvite ==
    \/ \E room_id \in InvitedRooms : SpawnAccept(room_id)
    \/ \E room_id \in InvitedRooms : AcceptInvitation(room_id)
    \/ \E room_id \in InvitedRooms : SleepAndDouble(room_id)

SpecInvite ==
    /\ InitInvite
    /\ [][NextInvite]_vars
    /\ \A room_id \in InvitedRooms :
          /\ WF_vars(AcceptInvitation(room_id))
          /\ WF_vars(SleepAndDouble(room_id))

-----------------------------------------------------------------------------
(* A room the local user joins while the client runs.  The server's history
   of R1 is the Join of the local user and two messages; the sync task hands
   each event of it once and in order to the event handler of its kind.  The
   handle that comes with the Join answers timeline_backward with the newest
   messages the server holds when Room::new asks: any number of them. *)

History ==
    <<MemberEvent(R1, LocalUser, Membership_Join, <<>>),
      MessageEvent(R1, U1, Ts(1000), "a"),
      MessageEvent(R1, U1, Ts(2000), "b")>>

HistoryMessages == SelectSeq(History, LAMBDA ev : "msgtype" \in DOMAIN ev)

\* the event as an item of the backward stream
Raw(ev) == RawMessage(ev.sender, ev.origin_server_ts, ev.msgtype.body)

BackfillHandles ==
    {Handle(R1, Some("one"), T1Members,
            Ok(Reverse([k \in 1..n |-> Raw(HistoryMessages[k])]))) :
        n \in 0..Len(HistoryMessages)}

\* sync (matrix.rs:119) reaches the next event of `history` and the handler
\* registered for its kind (matrix.rs:73-83, 87-97) sends it into its channel;
\* tx.send waits while the channel is full
SyncNext(history, capacity) ==
    /\ Running
    /\ next_batch < Len(history)
    /\ LET ev == history[next_batch + 1] IN
       IF "membership" \in DOMAIN ev
       THEN /\ Len(rx_rooms) < capacity
            /\ rx_rooms' = Append(rx_rooms, ev)
            /\ UNCHANGED rx_messages
       ELSE /\ Len(rx_messages) < capacity
            /\ rx_messages' = Append(rx_messages, ev)
            /\ UNCHANGED rx_rooms
    /\ next_batch' = next_batch + 1
    /\ UNCHANGED <<rooms, current_tab, input, pc, last, invitation>>

InitBackfill == InitWith({<<>>})

NextBackfill ==
    \/ SyncNext(History, MaxQueue)
    \/ RecvMessage
    \/ RecvRoomEvent(BackfillHandles)
    \/ Draw
    \/ PollKey(Keys)

SpecBackfill == InitBackfill /\ [][NextBackfill]_vars

-----------------------------------------------------------------------------
(* Properties *)

RoomIndices == 1..Len(rooms.rooms)

\* the step is ui.rs:43-45 appending a message to the timeline of room k
StepAddMessage(k) ==
    /\ pc = "recv_messages" /\ pc' = "recv_rooms"
    /\ last'.op = "add_message" /\ last'.room = rooms.rooms[k].id

\* the step is the key handler running operation op on the selected room k
StepKeyOp(k, op) ==
    /\ pc = "poll" /\ pc' = "recv_messages"
    /\ last'.op = op /\ get_current_room(rooms) = k - 1

\* the step is ui.rs:46-48 running the arm `branch` of the membership handler
StepRoomEvent(branch) ==
    /\ pc = "recv_rooms" /\ pc' = "draw" /\ last'.op = branch

\* the step is the key handler running operation op
StepKey(op) == pc = "poll" /\ pc' = "recv_messages" /\ last'.op = op

Min(a, b) == IF a < b THEN a ELSE b
Max(a, b) == IF a > b THEN a ELSE b

SelectionInRange(selected, len) ==
    /\ IsSome(selected) => selected < len
    /\ len = 0 => selected = None

\* C1: no step of the home loop aborts the process: neither the rooms[i] of
\* draw_room_tab nor the members[i] of the kick handler runs with i >= the
\* length of the list.
C1_NoStepAborts == pc # "panicked"

\* C2: the directory's selected index, if set, is below the number of rooms,
\* and it is unset when the directory is empty.
C2_RoomSelectionInRange == SelectionInRange(rooms.state, Len(rooms.rooms))

\* C3: each roster's selected index, if set, is below the roster length, and
\* it is unset when the roster is empty.
C3_MemberSelectionInRange ==
    \A k \in RoomIndices :
        SelectionInRange(rooms.rooms[k].members.state, Len(rooms.rooms[k].members.members))

\* C4: each timeline's selected index, if set, is below the number of
\* messages, and it is unset when the timeline holds no message.
C4_MessageSelectionInRange ==
    \A k \in RoomIndices :
        SelectionInRange(rooms.rooms[k].messages.state,
                         Len(rooms.rooms[k].messages.messages))

\* C5: the directory never holds two entries with the same room id.
C5_RoomIdsUnique ==
    \A i, j \in RoomIndices : rooms.rooms[i].id = rooms.rooms[j].id => i = j

\* a Join of the local user for a room the directory already holds was handled
C5_Witness ==
    /\ pc = "draw" /\ last.op \in {"join_present", "join_push"}
    /\ last.arg = <<LocalUser>>
    /\ \E k \in RoomIndices : rooms.rooms[k].id = last.room

RosterIdsUnique(members) ==
    \A i, j \in 1..Len(members) : members[i][2] = members[j][2] => i = j

\* C6: a roster holds at most one entry per user id, and a Join for a user id
\* the roster already holds leaves the roster (and all of App) unchanged.
C6_RosterIdsUnique ==
    /\ [](\A k \in RoomIndices : RosterIdsUnique(rooms.rooms[k].members.members))
    /\ [][StepRoomEvent("join_present") => rooms' = rooms /\ current_tab' = current_tab]_vars

\* a second Join of a user the roster holds was handled
C6_Witness ==
    /\ pc = "draw" /\ last.op = "join_present" /\ last.arg = <<U1>>
    /\ \E k \in RoomIndices :
          /\ rooms.rooms[k].id = last.room
          /\ Len(rooms.rooms[k].members.members) > 1

\* C7: add_message on a timeline in Follow mode selects the index of the
\* message it appends, the last one.
C7_FollowSelectsAppended ==
    [][\A k \in RoomIndices :
          StepAddMessage(k) /\ rooms.rooms[k].messages.mode = Follow
          => /\ Len(rooms'.rooms[k].messages.messages)
                  = Len(rooms.rooms[k].messages.messages) + 1
             /\ rooms'.rooms[k].messages.state
                  = Len(rooms'.rooms[k].messages.messages) - 1]_vars

\* a message was appended to a timeline in Follow mode that held others
C7_Witness ==
    /\ pc = "recv_rooms" /\ last.op = "add_message"
    /\ \E k \in RoomIndices :
          /\ rooms.rooms[k].id = last.room
          /\ rooms.rooms[k].messages.mode = Follow
          /\ Len(rooms.rooms[k].messages.messages) > 1

\* C8: previous_message on a timeline of more than one message whose last
\* message is selected puts it in Scroll mode, and add_message on a timeline
\* in Scroll mode leaves the selected index (and the mode) unchanged.
C8_ScrollPinsSelection ==
    [][\A k \in RoomIndices :
          LET list == rooms.rooms[k].messages
              list2 == rooms'.rooms[k].messages
          IN  /\ StepKeyOp(k, "previous_message") /\ Len(list.messages) > 1
                 /\ list.state = Len(list.messages) - 1
                 => list2.mode = Scroll /\ list2.state = list.state - 1
              /\ StepAddMessage(k) /\ list.mode = Scroll
                 => /\ list2.state = list.state
                    /\ list2.mode = Scroll
                    /\ Len(list2.messages) = Len(list.messages) + 1]_vars

\* a message was appended while the selection was pinned one above the
\* message that was last before
C8_Witness ==
    /\ pc = "recv_rooms" /\ last.op = "add_message"
    /\ \E k \in RoomIndices :
          /\ rooms.rooms[k].id = last.room
          /\ rooms.rooms[k].messages.mode = Scroll
          /\ Len(rooms.rooms[k].messages.messages) >= 3
          /\ rooms.rooms[k].messages.state = Len(rooms.rooms[k].messages.messages) - 3

\* C9: next_message on a timeline in Scroll mode that lands on the last index
\* switches the mode to Follow.
C9_NextOntoLastFollows ==
    [][\A k \in RoomIndices :
          LET list == rooms.rooms[k].messages
              list2 == rooms'.rooms[k].messages
          IN  StepKeyOp(k, "next_message") /\ list.mode = Scroll
              /\ list2.state = Len(list2.messages) - 1
              => list2.mode = Follow]_vars

\* C10, as claimed: previous_message with index 0 selected keeps 0 selected
\* and leaves the timeline in Scroll mode; next_message with the last index
\* selected keeps it selected and leaves the timeline in Follow mode.
C10_Original ==
    [][\A k \in RoomIndices :
          LET list == rooms.rooms[k].messages
              list2 == rooms'.rooms[k].messages
          IN  /\ StepKeyOp(k, "previous_message") /\ Len(list.messages) > 0
                 /\ list.state = 0
                 => list2.state = 0 /\ list2.mode = Scroll
              /\ StepKeyOp(k, "next_message") /\ Len(list.messages) > 0
                 /\ list.state = Len(list.messages) - 1
                 => list2.state = list.state /\ list2.mode = Follow]_vars

\* C10, amended: previous_message with index 0 selected keeps 0 selected and
\* leaves the mode as it was; next_message with the last index selected keeps
\* it selected and leaves the timeline in Follow mode.
C10_BoundaryKeys ==
    [][\A k \in RoomIndices :
          LET list == rooms.rooms[k].messages
              list2 == rooms'.rooms[k].messages
          IN  /\ StepKeyOp(k, "previous_message") /\ Len(list.messages) > 0
                 /\ list.state = 0
                 => list2.state = 0 /\ list2.mode = list.mode
                    /\ list2.messages = list.messages
              /\ StepKeyOp(k, "next_message") /\ Len(list.messages) > 0
                 /\ list.state = Len(list.messages) - 1
                 => list2.state = list.state /\ list2.mode = Follow
                    /\ list2.messages = list.messages]_vars

\* previous_message ran on a timeline in Follow mode with index 0 selected
C10_Witness ==
    /\ pc = "recv_messages" /\ last.op = "previous_message"
    /\ \E k \in RoomIndices :
          /\ rooms.rooms[k].id = last.room
          /\ rooms.rooms[k].messages.mode = Follow
          /\ rooms.rooms[k].messages.state = 0
          /\ Len(rooms.rooms[k].messages.messages) = 1

\* C11, as claimed: for the directory and for a roster of length n > 0, next
\* from an unset selection selects index 0 and next from index i selects
\* min(i + 1, n - 1), so that next with n - 1 selected leaves n - 1 selected.
C11_Original ==
    [][/\ StepKey("next_room") /\ Len(rooms.rooms) > 0
          => rooms'.state = IF rooms.state = None THEN 0
                            ELSE Min(rooms.state + 1, Len(rooms.rooms) - 1)
       /\ \A k \in RoomIndices :
             LET list == rooms.rooms[k].members
                 list2 == rooms'.rooms[k].members
             IN  StepKeyOp(k, "next_member") /\ Len(list.members) > 0
                 => list2.state = IF list.state = None THEN 0
                                  ELSE Min(list.state + 1, Len(list.members) - 1)]_vars

\* C11, amended: for the directory and for a roster of length n > 0, next from
\* an unset selection selects index 0, next from index i < n - 1 selects
\* i + 1 and next from index n - 1 selects index 0; the list itself is
\* unchanged.
C11_NextWraps ==
    [][/\ StepKey("next_room") /\ Len(rooms.rooms) > 0
          => /\ rooms'.state = IF rooms.state = None THEN 0
                               ELSE IF rooms.state < Len(rooms.rooms) - 1
                                    THEN rooms.state + 1 ELSE 0
             /\ Len(rooms'.rooms) = Len(rooms.rooms)
       /\ \A k \in RoomIndices :
             LET list == rooms.rooms[k].members
                 list2 == rooms'.rooms[k].members
             IN  StepKeyOp(k, "next_member") /\ Len(list.members) > 0
                 => /\ list2.state = IF list.state = None THEN 0
                                     ELSE IF list.state < Len(list.members) - 1
                                          THEN list.state + 1 ELSE 0
                    /\ list2.members = list.members]_vars

\* next_room ran with the last of several rooms selected
C11_Witness ==
    /\ pc = "recv_messages" /\ last.op = "next_room"
    /\ Len(rooms.rooms) > 1
    /\ last.from.room = Len(rooms.rooms) - 1
    /\ rooms.state = 0

\* C12, as claimed: for the directory and for a roster, previous is a no-op
\* on an empty list, selects index 0 from an unset selection and selects
\* max(i - 1, 0) from index i, so that previous with 0 selected leaves 0
\* selected.
C12_Original ==
    [][/\ StepKey("previous_room")
          => rooms'.state = IF Len(rooms.rooms) = 0 THEN rooms.state
                            ELSE IF rooms.state = None THEN 0
                            ELSE Max(rooms.state - 1, 0)
       /\ \A k \in RoomIndices :
             LET list == rooms.rooms[k].members
                 list2 == rooms'.rooms[k].members
             IN  StepKeyOp(k, "previous_member")
                 => list2.state = IF Len(list.members) = 0 THEN list.state
                                  ELSE IF list.state = None THEN 0
                                  ELSE Max(list.state - 1, 0)]_vars

\* C12, amended: for the directory and for a roster of length n, previous is
\* a no-op on an empty list, selects index 0 from an unset selection, selects
\* i - 1 from index i > 0 and selects index n - 1 from index 0; the list
\* itself is unchanged.
C12_PreviousWraps ==
    [][/\ StepKey("previous_room")
          => /\ rooms'.state = IF Len(rooms.rooms) = 0 THEN rooms.state
                               ELSE IF rooms.state = None THEN 0
                               ELSE IF rooms.state > 0 THEN rooms.state - 1
                               ELSE Len(rooms.rooms) - 1
             /\ Len(rooms'.rooms) = Len(rooms.rooms)
       /\ \A k \in RoomIndices :
             LET list == rooms.rooms[k].members
                 list2 == rooms'.rooms[k].members
             IN  StepKeyOp(k, "previous_member")
                 => /\ list2.state = IF Len(list.members) = 0 THEN list.state
                                     ELSE IF list.state = None THEN 0
                                     ELSE IF list.state > 0 THEN list.state - 1
                                     ELSE Len(list.members) - 1
                    /\ list2.members = list.members]_vars

\* previous_room ran with the first of several rooms selected
C12_Witness ==
    /\ pc = "recv_messages" /\ last.op = "previous_room"
    /\ Len(rooms.rooms) > 1
    /\ last.from.room = 0
    /\ rooms.state = Len(rooms.rooms) - 1

\* the App after the Tab key is handled in App `app`
PressTab(app) == key_event(app, [code |-> "Tab", c |-> ""]).app

\* C13: from the Room tab with a room selected, four Tab keys in a row, with
\* no event handled in between, show the Messages, Input and Members tabs in
\* that order and then the Room tab again.
C13_FourTabsCycle ==
    current_tab = TabRoom /\ IsSome(rooms.state)
    => LET a1 == PressTab([rooms |-> rooms, current_tab |-> current_tab,
                           input |-> input])
           a2 == PressTab(a1)
           a3 == PressTab(a2)
           a4 == PressTab(a3)
       IN  /\ a1.current_tab = TabMessages
           /\ a2.current_tab = TabInput
           /\ a3.current_tab = TabMembers
           /\ a4.current_tab = TabRoom

\* the Tab key brought the Members tab back to the Room tab with a room
\* selected
C13_Witness ==
    /\ pc = "recv_messages" /\ last.op = "next_tab"
    /\ last.from.tab = TabMembers
    /\ current_tab = TabRoom /\ IsSome(rooms.state)

\* C14: next_tab in the Messages tab with no room selected, as when the
\* directory is empty, goes to the Room tab and not to the Input tab.
C14_NoSelectionSkipsInput ==
    [][StepKey("next_tab") /\ current_tab = TabMessages /\ rooms.state = None
       => current_tab' = TabRoom]_vars

\* the Tab key was handled in the Messages tab of an empty directory
C14_Witness ==
    /\ pc = "recv_messages" /\ last.op = "next_tab"
    /\ last.from.tab = TabMessages /\ last.from.room = None
    /\ Len(rooms.rooms) = 0
    /\ current_tab = TabRoom

\* C15: whenever the Input or the Members tab is shown, a room is selected and
\* get_current_room returns a room of the directory, whatever the order of Tab
\* keys, room navigation and Joins and Leaves of the local user.
C15_InputMembersHaveRoom ==
    current_tab \in {TabInput, TabMembers}
    => /\ IsSome(rooms.state)
       /\ get_current_room(rooms) # None
       /\ rooms.state < Len(rooms.rooms)

\* a Join of the local user added a room while the Members tab was shown
C15_Witness ==
    /\ pc = "draw" /\ last.op = "add_room" /\ last.arg = <<LocalUser>>
    /\ current_tab = TabMembers
    /\ get_current_room(rooms) # None
    /\ Len(rooms.rooms) > 1

\* C16: a Leave of the local user for the selected room R, handled while the
\* Members or the Input tab is shown, removes R from the directory, unsets the
\* directory's selection and shows the Room tab.
C16_SelfLeaveOfSelected ==
    [][\A k \in RoomIndices :
          /\ StepRoomEvent("leave_self") /\ last'.room = rooms.rooms[k].id
          /\ rooms.state = k - 1
          /\ current_tab \in {TabMembers, TabInput}
          => /\ RoomPosition(rooms'.rooms, rooms.rooms[k].id) = None
             /\ Len(rooms'.rooms) = Len(rooms.rooms) - 1
             /\ rooms'.state = None
             /\ current_tab' = TabRoom]_vars

\* the local user left the selected room while the Members or the Input tab
\* was shown
C16_Witness ==
    /\ pc = "draw" /\ last.op = "leave_self"
    /\ last.from.tab \in {TabMembers, TabInput}
    /\ IsSome(last.from.room)
    /\ rooms.state = None
    /\ RoomPosition(rooms.rooms, last.room) = None
    /\ current_tab = TabRoom

\* C17: the Enter key handled in the Input tab while the input buffer is empty
\* does not reach room.send, whichever room is selected.
C17_EmptyInputNotSent ==
    [][pc = "poll" /\ pc' = "recv_messages" /\ current_tab = TabInput
       /\ input = <<>>
       => last'.op # "room_send"]_vars

\* Enter was handled in the Input tab with an empty buffer and a room
\* selected: send_message was called and returned
C17_Witness ==
    /\ pc = "recv_messages" /\ last.op = "send_message_returns"
    /\ last.from.tab = TabInput
    /\ last.arg = <<>>
    /\ RoomPosition(rooms.rooms, last.room) # None

\* C18: in every reachable state that shows the Input tab, handling the Enter
\* key leaves the input buffer empty.
C18_EnterEmptiesInput ==
    current_tab = TabInput
    => key_event([rooms |-> rooms, current_tab |-> current_tab, input |-> input],
                 [code |-> "Enter", c |-> ""]).app.input = <<>>

\* Enter was handled in the Input tab with characters in the buffer
C18_Witness ==
    /\ pc = "recv_messages" /\ last.op = "room_send"
    /\ last.from.tab = TabInput
    /\ last.arg # <<>>
    /\ input = <<>>

\* C19: the Up and the Down key change only the collection of the tab shown:
\* in the Room tab the directory's selection, in the Messages tab the
\* selection and mode of the selected room's timeline, in the Members tab the
\* selection of the selected room's roster, in the Input tab nothing; every
\* other selection, the content of every list, the tab and the input buffer
\* stay as they are.
C19_UpDownFrame ==
    \A code \in {"Up", "Down"} :
        LET res == key_event([rooms |-> rooms, current_tab |-> current_tab,
                              input |-> input], [code |-> code, c |-> ""])
            after == res.app.rooms
        IN  /\ res.next = "recv_messages"
            /\ res.app.current_tab = current_tab
            /\ res.app.input = input
            /\ current_tab = TabRoom => after.rooms = rooms.rooms
            /\ current_tab = TabInput => after = rooms
            /\ current_tab \in {TabMessages, TabMembers}
               => /\ after.state = rooms.state
                  /\ Len(after.rooms) = Len(rooms.rooms)
                  /\ \A k \in RoomIndices :
                        LET room == rooms.rooms[k]
                            room2 == after.rooms[k]
                        IN  IF k # rooms.state + 1 THEN room2 = room
                            ELSE IF current_tab = TabMessages
                            THEN room2 = [room EXCEPT
                                     !.messages.state = room2.messages.state,
                                     !.messages.mode = room2.messages.mode]
                            ELSE room2 = [room EXCEPT
                                     !.members.state = room2.members.state]

\* the Up key moved the selection of the selected room's timeline while the
\* directory held another room
C19_Witness ==
    /\ pc = "recv_messages" /\ last.op = "previous_message"
    /\ current_tab = TabMessages
    /\ Len(rooms.rooms) > 1
    /\ get_current_room(rooms) # None
    /\ rooms.rooms[rooms.state + 1].id = last.room
    /\ rooms.rooms[rooms.state + 1].messages.mode = Scroll

\* the positions run_ui passes through in one iteration of its loop, in order
LoopOrder ==
    {<<"recv_messages", "recv_rooms">>, <<"recv_rooms", "draw">>,
     <<"draw", "poll">>, <<"draw", "panicked">>,
     <<"poll", "recv_messages">>, <<"poll", "exited">>, <<"poll", "panicked">>}

\* queue2 is queue, or queue with one event added at its end
SameOrAppended(queue, queue2) ==
    \/ queue2 = queue
    \/ Len(queue2) = Len(queue) + 1 /\ SubSeq(queue2, 1, Len(queue)) = queue

\* C20: the events of each channel are applied in the order they were sent,
\* one at a time, none skipped, merged or applied twice: events are added at
\* the end of a channel, only the receiving step of run_ui takes an event out,
\* it takes the oldest one and applies exactly that one, and one iteration of
\* the loop takes at most one event from the message channel and then at most
\* one from the membership channel.
C20_ChannelsInOrder ==
    [][/\ pc' # pc => <<pc, pc'>> \in LoopOrder
       /\ IF pc = "recv_messages" /\ pc' = "recv_rooms"
          THEN /\ rx_rooms' = rx_rooms /\ current_tab' = current_tab
               /\ IF rx_messages = <<>>
                  THEN rx_messages' = <<>> /\ rooms' = rooms
                  ELSE /\ rx_messages' = Tail(rx_messages)
                       /\ rooms' = handle_matrix_message_event(rooms, Head(rx_messages))
          ELSE IF pc = "recv_rooms" /\ pc' = "draw"
          THEN /\ rx_messages' = rx_messages
               /\ IF rx_rooms = <<>>
                  THEN rx_rooms' = <<>> /\ rooms' = rooms /\ current_tab' = current_tab
                  ELSE /\ rx_rooms' = Tail(rx_rooms)
                       /\ \E room \in FifoHandles :
                             [rooms |-> rooms', current_tab |-> current_tab']
                             = handle_matrix_room_event(
                                   [rooms |-> rooms, current_tab |-> current_tab],
                                   Head(rx_rooms), room)
          ELSE /\ SameOrAppended(rx_messages, rx_messages')
               /\ SameOrAppended(rx_rooms, rx_rooms')
               /\ pc' = pc => rooms' = rooms /\ current_tab' = current_tab]_vars

\* the older of two different messages was appended to a timeline while
\* another message waited in the channel
C20_Witness ==
    /\ pc = "recv_rooms" /\ last.op = "add_message"
    /\ rx_messages # <<>>
    /\ \E k \in RoomIndices :
          LET messages == rooms.rooms[k].messages.messages IN
          /\ rooms.rooms[k].id = last.room
          /\ Len(messages) >= 2
          /\ messages[Len(messages)][3] # messages[Len(messages) - 1][3]
          /\ messages[Len(messages)][3] # Head(rx_messages).msgtype.body

\* the events of a backward timeline before its first stream or
\* deserialization error
UpToError(events) ==
    LET errors == {k \in 1..Len(events) : events[k].kind \in {"stream_err", "deser_err"}}
    IN  IF errors = {} THEN events
        ELSE SubSeq(events, 1, (CHOOSE k \in errors : \A j \in errors : k <= j) - 1)

IsRoomMessage(event) == event.kind = "message"

\* the room messages a backward timeline returns, newest first
Retrieved(timeline) ==
    IF timeline.ok THEN SelectSeq(UpToError(timeline.events), IsRoomMessage) ELSE <<>>

\* C21: the timeline of a room that is created holds the room messages the
\* backward stream returned before its end or its first stream or
\* deserialization error, in the reverse of the order of retrieval (oldest
\* first); it is in Follow mode and, when it holds a message, its last index
\* is selected.
C21_BackfillOldestFirst ==
    [][StepRoomEvent("add_room")
       => LET list == rooms'.rooms[Len(rooms'.rooms)].messages
              n == Len(list.messages)
          IN  /\ rooms'.rooms[Len(rooms'.rooms)].id = last'.room
              /\ list.mode = Follow
              /\ n > 0 => list.state = n - 1
              /\ \E room \in TimelineHandles :
                    /\ room.room_id = last'.room
                    /\ Len(Retrieved(room.timeline)) = n
                    /\ \A j \in 1..n :
                          LET event == Retrieved(room.timeline)[n + 1 - j] IN
                          /\ list.messages[j][2] = event.sender
                          /\ list.messages[j][3] = event.msgtype.body]_vars

\* a room was created from a backward timeline of two messages: the older
\* one comes first and the newer one is selected
C21_Witness ==
    /\ pc = "draw" /\ last.op = "add_room"
    /\ LET list == rooms.rooms[Len(rooms.rooms)].messages IN
       /\ Len(list.messages) = 2
       /\ list.messages[1][3] = "a" /\ list.messages[2][3] = "b"
       /\ list.state = 1 /\ list.mode = Follow

\* C22: removing an entry other than the selected one keeps the same entry
\* selected: after a Leave of another member the roster's selected entry has
\* the user id it had, and after a Leave of the local user for a room that is
\* not the selected one the directory's selected entry has the room id it had.
C22_SelectionKeepsEntry ==
    [][/\ \A k \in RoomIndices :
             LET list == rooms.rooms[k].members
                 list2 == rooms'.rooms[k].members
             IN  /\ StepRoomEvent("leave_member") /\ rooms.rooms[k].id = last'.room
                 /\ IsSome(list.state) /\ list.state < Len(list.members)
                 /\ list.members[list.state + 1][2] # last'.arg[1]
                 => /\ IsSome(list2.state) /\ list2.state < Len(list2.members)
                    /\ list2.members[list2.state + 1][2]
                         = list.members[list.state + 1][2]
       /\ /\ StepRoomEvent("leave_self")
          /\ IsSome(rooms.state) /\ rooms.state < Len(rooms.rooms)
          /\ rooms.rooms[rooms.state + 1].id # last'.room
          => /\ IsSome(rooms'.state) /\ rooms'.state < Len(rooms'.rooms)
             /\ rooms'.rooms[rooms'.state + 1].id = rooms.rooms[rooms.state + 1].id]_vars

\* C23: next_tab in the Members tab shows the Room tab and unsets the roster
\* selection of the selected room, and a roster selection is never set while
\* another tab is shown: the next time the Members tab is entered for that
\* room, its roster has no selection.
C23_MembersTabClearsSelection ==
    [][/\ StepKey("next_tab") /\ current_tab = TabMembers
          => /\ current_tab' = TabRoom
             /\ get_current_room(rooms) # None
             /\ rooms'.state = rooms.state
             /\ rooms'.rooms[rooms.state + 1].members.state = None
             /\ rooms'.rooms[rooms.state + 1].id = rooms.rooms[rooms.state + 1].id
       /\ current_tab # TabMembers
          => \A k2 \in 1..Len(rooms'.rooms) :
                IsSome(rooms'.rooms[k2].members.state)
                => \E k \in RoomIndices :
                      /\ rooms.rooms[k].id = rooms'.rooms[k2].id
                      /\ rooms.rooms[k].members.state
                           = rooms'.rooms[k2].members.state]_vars

\* the Tab key left the Members tab of a room in whose roster a member was
\* selected
C23_Witness ==
    /\ pc = "recv_messages" /\ last.op = "next_tab"
    /\ last.from.tab = TabMembers /\ IsSome(last.from.member)
    /\ current_tab = TabRoom
    /\ get_current_room(rooms) # None
    /\ rooms.rooms[rooms.state + 1].members.state = None

\* the roster without the entries of user_id, in the same order
Without(members, user_id) ==
    LET other(m) == m[2] # user_id IN SelectSeq(members, other)

\* C24: a Leave of a user other than the local user for a room of the
\* directory removes that user's entry from the room's roster and no other,
\* keeping the order; the roster selection is unset when the entry removed
\* was the selected one; when the roster does not hold the user, nothing
\* changes.
C24_LeaveOfOtherMember ==
    [][/\ StepRoomEvent("leave_member")
          => /\ current_tab' = current_tab
             /\ rooms'.state = rooms.state
             /\ Len(rooms'.rooms) = Len(rooms.rooms)
             /\ \A k \in RoomIndices :
                   LET room == rooms.rooms[k]
                       room2 == rooms'.rooms[k]
                       user_id == last'.arg[1]
                   IN  IF room.id # last'.room THEN room2 = room
                       ELSE /\ user_id # LocalUser
                            /\ room2 = [room EXCEPT !.members = room2.members]
                            /\ Len(room2.members.members) = Len(room.members.members) - 1
                            /\ room2.members.members = Without(room.members.members, user_id)
                            /\ room.members.state = MemberPosition(room.members.members, user_id)
                               => room2.members.state = None
       /\ StepRoomEvent("leave_absent")
          => rooms' = rooms /\ current_tab' = current_tab]_vars

\* the member selected in the roster of the room shown left the room
C24_Witness ==
    /\ pc = "draw" /\ last.op = "leave_member" /\ last.arg = <<U1>>
    /\ IsSome(last.from.member)
    /\ get_current_room(rooms) # None
    /\ rooms.rooms[rooms.state + 1].id = last.room
    /\ rooms.rooms[rooms.state + 1].members.state = None
    /\ Len(rooms.rooms[rooms.state + 1].members.members) = 1

\* C25: a message event for a room the directory does not hold, a message
\* event whose timestamp does not resolve, and a membership event for a room
\* the directory does not hold that is not a Join of the local user each
\* leave the directory, every selection, timeline and roster, the tab and the
\* input buffer as they were.
C25_DroppedEventsChangeNothing ==
    [][/\ /\ pc = "recv_messages" /\ pc' = "recv_rooms" /\ rx_messages # <<>>
          /\ \/ RoomPosition(rooms.rooms, Head(rx_messages).room_id) = None
             \/ ~Head(rx_messages).origin_server_ts.representable
          => rooms' = rooms /\ current_tab' = current_tab /\ input' = input
       /\ /\ pc = "recv_rooms" /\ pc' = "draw" /\ rx_rooms # <<>>
          /\ RoomPosition(rooms.rooms, Head(rx_rooms).room_id) = None
          /\ ~(/\ Head(rx_rooms).membership = Membership_Join
               /\ Head(rx_rooms).state_key = LocalUser)
          => rooms' = rooms /\ current_tab' = current_tab /\ input' = input]_vars

\* a message whose timestamp does not resolve was dropped although the
\* directory holds its room, which is selected
C25_Witness ==
    /\ pc = "recv_rooms" /\ last.op = "no_timestamp"
    /\ get_current_room(rooms) # None
    /\ rooms.rooms[rooms.state + 1].id = last.room

\* the membership event handled by the step is a Join of the local user
StepSelfJoin ==
    /\ pc = "recv_rooms" /\ pc' = "draw" /\ rx_rooms # <<>>
    /\ Head(rx_rooms).membership = Membership_Join
    /\ Head(rx_rooms).state_key = LocalUser

\* C26: a Join of the local user for a room the directory does not hold adds
\* one entry for that room at the end of the directory and leaves the
\* directory's selection and the tab as they were; a Join of the local user
\* for a room the directory holds leaves the number of entries unchanged.
C26_SelfJoinAppendsOnce ==
    [][StepSelfJoin
       => IF RoomPosition(rooms.rooms, Head(rx_rooms).room_id) = None
          THEN /\ Len(rooms'.rooms) = Len(rooms.rooms) + 1
               /\ SubSeq(rooms'.rooms, 1, Len(rooms.rooms)) = rooms.rooms
               /\ rooms'.rooms[Len(rooms'.rooms)].id = Head(rx_rooms).room_id
               /\ rooms'.state = rooms.state
               /\ current_tab' = current_tab
          ELSE Len(rooms'.rooms) = Len(rooms.rooms)]_vars

\* a Join of the local user added a second room while the first one was
\* selected
C26_Witness ==
    /\ pc = "draw" /\ last.op = "add_room" /\ last.arg = <<LocalUser>>
    /\ Len(rooms.rooms) = 2
    /\ rooms.rooms[2].id = last.room
    /\ rooms.state = 0 /\ last.from.room = 0

\* C27: a Leave of the local user shows the Room tab only when the room
\* removed was the selected room; a Leave of the local user for a room other
\* than the selected one leaves the tab as it was.
C27_TabResetOnlyForSelected ==
    [][/\ StepRoomEvent("leave_self")
       /\ get_current_room(rooms) # None
       /\ rooms.rooms[rooms.state + 1].id # last'.room
       => current_tab' = current_tab]_vars

\* C28: handling a message event changes only the messages and the selection
\* of the timeline of the room of the event, and handling a membership event
\* changes the messages, selection and mode of the timeline of no room that
\* stays in the directory.
C28_MessagesAndMembershipDisjoint ==
    [][/\ pc = "recv_messages" /\ pc' = "recv_rooms"
          => /\ current_tab' = current_tab /\ input' = input
             /\ rooms'.state = rooms.state
             /\ Len(rooms'.rooms) = Len(rooms.rooms)
             /\ \A k \in RoomIndices :
                   LET room == rooms.rooms[k]
                       room2 == rooms'.rooms[k]
                   IN  IF rx_messages # <<>> /\ room.id = Head(rx_messages).room_id
                       THEN room2 = [room EXCEPT
                                !.messages.messages = room2.messages.messages,
                                !.messages.state = room2.messages.state]
                       ELSE room2 = room
       /\ pc = "recv_rooms" /\ pc' = "draw"
          => /\ input' = input
             /\ \A k \in RoomIndices : \A k2 \in 1..Len(rooms'.rooms) :
                   rooms'.rooms[k2].id = rooms.rooms[k].id
                   => rooms'.rooms[k2].messages = rooms.rooms[k].messages]_vars

\* a message was appended to the timeline of the selected room while a member
\* of its roster was selected
C28_Witness ==
    /\ pc = "recv_rooms" /\ last.op = "add_message"
    /\ get_current_room(rooms) # None
    /\ rooms.rooms[rooms.state + 1].id = last.room
    /\ IsSome(rooms.rooms[rooms.state + 1].members.state)
    /\ Len(rooms.rooms[rooms.state + 1].messages.messages) >= 3

\* the input buffer after `key` is handled in the state
InputAfter(key) ==
    key_event([rooms |-> rooms, current_tab |-> current_tab, input |-> input],
              key).app.input

\* C29: the input buffer changes only while the Input tab is shown: there a
\* character key adds its character at the end and Backspace takes the last
\* character away; in the Room, Messages and Members tabs every key leaves the
\* buffer as it was, and so does every event.
C29_InputOnlyInInputTab ==
    /\ [](\A key \in Keys :
             /\ current_tab # TabInput => InputAfter(key) = input
             /\ current_tab = TabInput /\ key.code = "Char"
                => /\ Len(InputAfter(key)) = Len(input) + 1
                   /\ SubSeq(InputAfter(key), 1, Len(input)) = input
                   /\ InputAfter(key)[Len(input) + 1] = key.c
             /\ current_tab = TabInput /\ key.code = "Backspace" /\ input # <<>>
                => /\ Len(InputAfter(key)) = Len(input) - 1
                   /\ InputAfter(key) = SubSeq(input, 1, Len(input) - 1)
             /\ current_tab = TabInput /\ key.code = "Backspace" /\ input = <<>>
                => InputAfter(key) = <<>>)
    /\ [][input' # input => current_tab = TabInput /\ pc = "poll"]_vars

\* a character key put its character into the empty buffer in the Input tab
C29_Witness ==
    /\ pc = "recv_messages" /\ last.op = "push"
    /\ last.from.tab = TabInput /\ current_tab = TabInput
    /\ input = <<"k">>

\* C30: handling a protocol event never suspends run_ui on external work:
\* run_ui is never inside the membership handler waiting for the history of a
\* room that was joined, with keys unread and events left in the channels.
C30_HandlerNeverAwaitsBackfill == pc # "room_new"

RECURSIVE Pow2(_)
Pow2(n) == IF n = 0 THEN 1 ELSE 2 * Pow2(n - 1)

\* C31: the invitation task always ends: it ends at the first accept that
\* succeeds; when accepts fail, it waits 2 seconds after the first failure
\* and twice the wait before after each further one, it never waits more than
\* 3600 seconds, and it is abandoned when the next wait would be longer; a
\* task that has ended takes no further step.
C31_InvitationTaskTerminates ==
    /\ \A room_id \in InvitedRooms :
          invitation[room_id].pc \in {"accept", "sleep"}
          ~> invitation[room_id].pc \in {"joined", "abandoned"}
    /\ [](\A room_id \in InvitedRooms :
             LET task == invitation[room_id] IN
             /\ task.pc = "sleep"
                => task.delay = Pow2(task.failed) /\ task.delay <= MaxDelay
             /\ task.pc = "abandoned"
                => task.delay = Pow2(task.failed + 1) /\ task.delay > MaxDelay
                   /\ task.delay \div 2 <= MaxDelay)
    /\ [][\A room_id \in InvitedRooms :
             /\ invitation[room_id].pc \in {"joined", "abandoned"}
                => invitation'[room_id] = invitation[room_id]
             /\ invitation'[room_id].pc = "joined"
                => invitation'[room_id].failed = invitation[room_id].failed]_vars

\* one task was abandoned after its last wait and another one ended with an
\* accept that succeeded after failures
C31_Witness ==
    \E a, b \in InvitedRooms :
        /\ invitation[a].pc = "abandoned" /\ invitation[a].delay > MaxDelay
        /\ invitation[b].pc = "joined" /\ invitation[b].failed > 1

\* C32: a member added to a roster without a display name in the event or
\* in the member list of the room is shown under the user id: the entry the
\* Join handler pushes for an event without displayname has the state_key as
\* its name, and so has every entry of a room created by a Join of the local
\* user whose member has no display name.
C32_AbsentNameIsUserId ==
    [][/\ (StepRoomEvent("join_push") /\ Head(rx_rooms).displayname = <<>>)
          => LET r == RoomPosition(rooms.rooms, Head(rx_rooms).room_id) + 1
                 members == rooms'.rooms[r].members.members
             IN  members[Len(members)] =
                     <<Head(rx_rooms).state_key, Head(rx_rooms).state_key>>
       /\ StepRoomEvent("add_room")
          => \E room \in {h \in Handles : h.room_id = Head(rx_rooms).room_id} :
                LET members == rooms'.rooms[Len(rooms'.rooms)].members.members IN
                room.joined_members.ok
                => \A k \in 1..Len(room.joined_members.members) :
                      room.joined_members.members[k].display_name = <<>>
                      => members[k] = <<room.joined_members.members[k].user_id,
                                        room.joined_members.members[k].user_id>>]_vars

\* C33: in every state, a timeline in Follow mode that holds a message has
\* its last index selected (so a timeline that holds messages and has another
\* index selected, or none, is in Scroll mode).
C33_FollowHasLastSelected ==
    \A k \in RoomIndices :
        LET list == rooms.rooms[k].messages IN
        (list.mode = Follow /\ Len(list.messages) > 0)
        => list.state = Len(list.messages) - 1

\* next_message brought a timeline of three messages back to Follow mode
C33_Witness ==
    /\ pc = "recv_messages" /\ last.op = "next_message"
    /\ \E k \in RoomIndices :
          /\ rooms.rooms[k].id = last.room
          /\ rooms.rooms[k].messages.mode = Follow
          /\ Len(rooms.rooms[k].messages.messages) = 3
          /\ rooms.rooms[k].messages.state = 2

\* C34: no timeline holds a message twice, whatever the order in which the
\* Join that creates the room and the message events are sent and received:
\* a message that the backfill of Room::new brought is not appended again
\* when its event is taken from the message channel.
C34_NoMessageTwice ==
    \A k \in RoomIndices :
        LET messages == rooms.rooms[k].messages.messages IN
        \A i, j \in 1..Len(messages) : messages[i] = messages[j] => i = j

====
